---- MODULE Spec2Model ----
(***************************************************************************)
(* State-machine model of the CAN routing pipeline of src/can_manager.py   *)
(* (class CANManager): the main thread calling initialize /                *)
(* add_processing_task / start / stop, and the reader, sender, dispatcher  *)
(* and task-worker threads with their queues; and of the continuous        *)
(* reception helper of src/test_scripts/can_send_receive_example.py.       *)
(***************************************************************************)
EXTENDS Integers, Sequences, FiniteSets, TLC

\* ---------------------------------------------------------------- bounds
\* What the environment (the bus and the caller of CANManager) does in one
\* run: frames the bus delivers, calls of add_processing_task, calls of
\* start() that get past the bus check, calls of stop().  A run is of one
\* of two kinds.
\* a run with traffic and no stop()
TrafficFrames == 2
TrafficRegs == 2
TrafficStarts == 1
TrafficStops == 0
\* a run through the lifecycle, stop() included
LifecycleFrames == 1
LifecycleRegs == 1
LifecycleStarts == 2
LifecycleStops == 1
\* successful calls of initialize() in one run
MaxInits == 1
\* a run of a pipeline that is never stopped, two tasks on one frame
RunningFrames == 1
RunningRegs == 2
RunningStarts == 1
\* the continuous-reception helper: calls of connect(), of
\* receive_continuous() and of disconnect() in one run
MaxConnects == 1
MaxLoops == 2
MaxDisconnects == 2

Environments ==
  { [frames |-> TrafficFrames, regs |-> TrafficRegs,
     starts |-> TrafficStarts, stops |-> TrafficStops],
    [frames |-> LifecycleFrames, regs |-> LifecycleRegs,
     starts |-> LifecycleStarts, stops |-> LifecycleStops] }

\* ------------------------------------------------------------ input sets
TaskNames == {"task_1", "task_2"}

\* output_node_ids = None (the default of add_processing_task)
NoOutputs == <<-1>>

\* the (task_name, processing_func, output_node_ids) triples the caller registers
Descriptors ==
  { [task_name |-> "task_1", processing_func |-> "example_processing_task_1",
     output_node_ids |-> <<768>>],
    [task_name |-> "task_2", processing_func |-> "user_func",
     output_node_ids |-> <<1024, 1025>>],
    [task_name |-> "task_1", processing_func |-> "user_func",
     output_node_ids |-> NoOutputs] }

\* the node_filters dictionaries the caller passes to start()
FilterTables ==
  << [task_1 |-> <<256>>, task_2 |-> <<512>>],
     [task_1 |-> <<512>>, task_2 |-> <<512, 512>>] >>

\* (arbitration_id, data) of the frames the bus can deliver
BusMessages ==
  { [arbitration_id |-> 256, data |-> <<0, 255>>],
    [arbitration_id |-> 512, data |-> <<255>>],
    [arbitration_id |-> 2047, data |-> <<>>] }

\* ------------------------------------------------------------ can.Message
Message(id, data, ext, ts) ==
  [arbitration_id |-> id, data |-> data, is_extended_id |-> ext,
   is_remote_frame |-> FALSE, timestamp |-> ts]

NoMsg == Message(-1, <<>>, FALSE, 0)

\* ------------------------------------------------- processing functions
RECURSIVE XorBits(_, _, _)
\* a ^ b on the low n bits
XorBits(a, b, n) ==
  IF n = 0 THEN 0
  ELSE (((a % 2) + (b % 2)) % 2) + (2 * XorBits(a \div 2, b \div 2, n - 1))

\* a handler that adds 1 to each byte (mod 256) where it should invert
example_processing_task_1_AddOne(msg) ==
  [i \in 1..Len(msg.data) |-> (msg.data[i] + 1) % 256]

example_processing_task_1(msg) ==
  [i \in 1..Len(msg.data) |-> XorBits(msg.data[i], 255, 8)]

\* what a call processing_func(msg) can do: return bytes, return None, raise
Returned(bytes) == [kind |-> "bytes", data |-> bytes]
ReturnedNone == [kind |-> "None", data |-> <<>>]
Raised == [kind |-> "raised", data |-> <<>>]
NoResult == [kind |-> "unset", data |-> <<>>]
\* the call never returns (the handler hangs)
NeverReturns == [kind |-> "stuck", data |-> <<>>]

\* a result of nine bytes, one more than a classic CAN frame carries
NineBytes == <<0, 0, 0, 0, 0, 0, 0, 0, 0>>

HandlerOutcomes(func, msg) ==
  IF func = "example_processing_task_1"
    THEN {Returned(example_processing_task_1(msg))}
  ELSE {ReturnedNone, Raised, Returned(<<>>), Returned(msg.data),
        Returned(NineBytes), NeverReturns}

\* ------------------------------------------------------------------ state
VARIABLES
  bus,             \* self.bus: "None", "live" or "shutdown"
  incoming_queue,  \* self.incoming_queue: [items, unfinished]
  outgoing_queue,  \* self.outgoing_queue: [items, unfinished]
  task_queues,     \* self.task_queues: task name -> [qid, items, unfinished],
                   \* qid names the Queue object (0: the name is not a key)
  stop_event,      \* self.stop_event
  threads,         \* self.threads, each with its position in its loop
  workers,         \* the task_worker closures add_processing_task returned
  main_pc,         \* where the main thread is inside stop()
  ret,             \* outcome of the last call of start()
  nframes,         \* frames the bus has delivered so far
  ninit,           \* successful calls of initialize() so far
  nstops,          \* calls of stop() so far
  env,             \* the bounds of this run, one of Environments
  receiver         \* the CANManager object of can_send_receive_example.py

vars == <<bus, incoming_queue, outgoing_queue, task_queues, stop_event,
          threads, workers, main_pc, ret, nframes, ninit, nstops, env, receiver>>

EmptyQueue == [items |-> <<>>, unfinished |-> 0]

\* a task name that is not a key of self.task_queues
NoTaskQueue == [qid |-> 0, items |-> <<>>, unfinished |-> 0]

\* task_name in self.task_queues
Registered(tqs, name) == name \in TaskNames /\ tqs[name].qid # 0

NewTaskQueue(qid) == [qid |-> qid, items |-> <<>>, unfinished |-> 0]

\* queue.Queue.put
Put(q, item) ==
  [q EXCEPT !.items = Append(@, item), !.unfinished = @ + 1]

\* queue.Queue.get on a non-empty queue: the item and the queue left
GetItem(q) == Head(q.items)
GetRest(q) == [q EXCEPT !.items = Tail(@)]

\* queue.Queue.task_done: raises ValueError when nothing is unfinished
TaskDoneRaises(q) == q.unfinished <= 0
TaskDone(q) == [q EXCEPT !.unfinished = @ - 1]

\* x in list
InList(x, list) == \E i \in DOMAIN list : list[i] = x

\* CANManager.__init__
Constructed ==
  /\ bus = "None"
  /\ incoming_queue = EmptyQueue
  /\ outgoing_queue = EmptyQueue
  /\ task_queues = [n \in TaskNames |-> NoTaskQueue]
  /\ stop_event = FALSE
  /\ threads = <<>>
  /\ workers = <<>>
  /\ main_pc = "idle"
  /\ ret = "none"
  /\ nframes = 0
  /\ ninit = 0
  /\ nstops = 0

\* CANManager.__init__ of can_send_receive_example.py: no bus, not running,
\* no receive thread; loops are the threads receive_continuous has started
NoReceiver ==
  [bus |-> "None", running |-> FALSE, receive_thread |-> 0, loops |-> <<>>,
   main_pc |-> "idle", nconnect |-> 0, ndisconnect |-> 0]

Init == Constructed /\ env \in Environments /\ receiver = NoReceiver

\* ------------------------------------------------------------ main thread
\* the main thread is not inside stop(): "idle" before the first stop(),
\* "stopped" after stop() returned, "raised" after stop() raised
MainIdle == main_pc \in {"idle", "stopped", "raised"}

\* CANManager.initialize: can.interface.Bus(...) succeeds or raises
initialize ==
  /\ MainIdle
  /\ ninit < MaxInits
  /\ \E ok \in BOOLEAN :
       /\ bus' = IF ok THEN "live" ELSE bus
       /\ ninit' = IF ok THEN ninit + 1 ELSE ninit
  /\ UNCHANGED <<incoming_queue, outgoing_queue, task_queues, stop_event,
                 threads, workers, main_pc, ret, nframes, nstops, env, receiver>>

\* CANManager.add_processing_task: a fresh Queue under task_name, and the
\* task_worker closure is returned
add_processing_task ==
  /\ MainIdle
  /\ Len(workers) < env.regs
  /\ \E d \in Descriptors :
       /\ task_queues' =
            [task_queues EXCEPT ![d.task_name] =
               NewTaskQueue(Len(workers) + 1)]
       /\ workers' = Append(workers, d)
  /\ UNCHANGED <<bus, incoming_queue, outgoing_queue, stop_event, threads,
                 main_pc, ret, nframes, ninit, nstops, env, receiver>>

\* threading.Thread(target=..., args=...), not yet started
NewThread(target, arg) ==
  [target |-> target, arg |-> arg, pc |-> "new", msg |-> NoMsg,
   routed |-> FALSE, result |-> NoResult, i |-> 0, emitted |-> <<>>]

\* the processing_tasks lists the caller passes to start(): the closures
\* add_processing_task returned so far, each at most once, in creation order
RECURSIVE ProcessingTaskLists(_)
ProcessingTaskLists(n) ==
  IF n = 0 THEN {<<>>}
  ELSE LET shorter == ProcessingTaskLists(n - 1)
       IN shorter \cup {Append(l, n) : l \in shorter}

\* a start() without the test of self.bus
BusMissing_Unchecked(b) == FALSE

\* `if not self.bus`
BusMissing(b) == b = "None"

\* the threads start() appends, in order
StartThreads(f, pt) ==
  << NewThread("_read_can_bus", 0), NewThread("_send_can_bus", 0),
     NewThread("_dispatcher", f) >>
  \o [k \in 1..Len(pt) |-> NewThread("task_worker", pt[k])]

\* index of the first thread of the list that was started before (0: none)
FirstStarted(ts) ==
  IF \E k \in 1..Len(ts) : ts[k].pc # "new"
    THEN CHOOSE k \in 1..Len(ts) :
           /\ ts[k].pc # "new"
           /\ \A j \in 1..(k - 1) : ts[j].pc = "new"
    ELSE 0

\* a launch loop that starts just the threads not started before
LaunchAll_NewOnly(ts) ==
  [k \in 1..Len(ts) |->
     IF ts[k].pc = "new" THEN [ts[k] EXCEPT !.pc = "check"] ELSE ts[k]]

\* `for thread in self.threads: thread.start()`: Thread.start raises
\* RuntimeError on a thread that was started before, and the threads after
\* it in the list stay unstarted for good (their arguments are never read,
\* and are not kept)
LaunchAll(ts) ==
  LET bad == FirstStarted(ts)
  IN [k \in 1..Len(ts) |->
        IF bad = 0 \/ k < bad THEN [ts[k] EXCEPT !.pc = "check"]
        ELSE IF ts[k].pc = "new" THEN [ts[k] EXCEPT !.arg = 0]
        ELSE ts[k]]

NumStarts ==
  Cardinality({k \in 1..Len(threads) : threads[k].target = "_read_can_bus"})

\* CANManager.start
start ==
  /\ MainIdle
  /\ \E f \in DOMAIN FilterTables, pt \in ProcessingTaskLists(Len(workers)) :
       IF BusMissing(bus)
         THEN /\ ret' = "start:False"
              /\ UNCHANGED threads
         ELSE /\ NumStarts < env.starts
              /\ LET ts == threads \o StartThreads(f, pt)
                 IN /\ threads' = LaunchAll(ts)
                    /\ ret' = IF FirstStarted(ts) = 0 THEN "start:True"
                              ELSE "start:RuntimeError"
  /\ UNCHANGED <<bus, incoming_queue, outgoing_queue, task_queues, stop_event,
                 workers, main_pc, nframes, ninit, nstops, env, receiver>>

\* CANManager.stop, first statement: self.stop_event.set()
stop_set ==
  /\ MainIdle
  /\ nstops < env.stops
  /\ nstops' = nstops + 1
  /\ stop_event' = TRUE
  /\ main_pc' = "join"
  /\ UNCHANGED <<bus, incoming_queue, outgoing_queue, task_queues, threads,
                 workers, ret, nframes, ninit, env, receiver>>

\* a join that waits for every thread, started or not
JoinRaises_Never(ts) == FALSE

\* Thread.join raises RuntimeError for a thread that was never started
JoinRaises(ts) == \E k \in 1..Len(ts) : ts[k].pc = "new"

\* CANManager.stop, `for thread in self.threads: thread.join(timeout=2.0)`:
\* each join returns when its thread has finished or when the timeout
\* expires, and raises RuntimeError for a thread that was never started
stop_join ==
  /\ main_pc = "join"
  /\ main_pc' = IF JoinRaises(threads) THEN "raised" ELSE "shutdown"
  /\ UNCHANGED <<bus, incoming_queue, outgoing_queue, task_queues, stop_event,
                 threads, workers, ret, nframes, ninit, nstops, env, receiver>>

\* CANManager.stop, after the joins: `if self.bus: self.bus.shutdown()`
stop_shutdown ==
  /\ main_pc = "shutdown"
  /\ bus' = IF bus = "None" THEN bus ELSE "shutdown"
  /\ main_pc' = "stopped"
  /\ UNCHANGED <<incoming_queue, outgoing_queue, task_queues, stop_event,
                 threads, workers, ret, nframes, ninit, nstops, env, receiver>>

\* ---------------------------------------------------------- the threads
\* threads that share one lock: no thread runs while a worker is inside
\* its handler
Running_SharedLock(t, target, pc) ==
  /\ t \in 1..Len(threads)
  /\ threads[t].target = target
  /\ threads[t].pc = pc
  /\ \A w \in 1..Len(threads) : threads[w].pc # "call"

\* A thread stands at "check" when started, then at the blocking call of
\* its loop ("recv" or "get") or inside the loop body; the step that ends
\* a round of the loop also evaluates the loop condition for the next one.
\* The locals of the loop body (msg, routed, result) keep their values
\* until the next round assigns them; emitted lists the responses the
\* worker has put for its current msg.
Running(t, target, pc) ==
  /\ t \in 1..Len(threads)
  /\ threads[t].target = target
  /\ threads[t].pc = pc

\* a loop that never looks at the stop signal
LoopCondition_Ignored(ev) == TRUE

\* `while not self.stop_event.is_set()`
LoopCondition(ev) == ~ev

\* the loop head: into the blocking call, or out of the loop
LoopHead(call) == IF LoopCondition(stop_event) THEN call ELSE "exited"

\* the blocking call at the top of each thread's loop
BlockingCall(target) == IF target = "_read_can_bus" THEN "recv" ELSE "get"

\* a thread that has finished a round: the loop head is evaluated
NextRound(th) == [th EXCEPT !.pc = LoopHead(BlockingCall(th.target))]

\* the first evaluation of the loop condition of a started thread
thread_check ==
  /\ \E t \in 1..Len(threads) :
       /\ threads[t].pc = "check"
       /\ threads' = [threads EXCEPT ![t] = NextRound(@)]
  /\ UNCHANGED <<bus, incoming_queue, outgoing_queue, task_queues, stop_event,
                 workers, main_pc, ret, nframes, ninit, nstops, env, receiver>>

\* what self.bus.recv(timeout=0.1) can do: return None on timeout, return a
\* frame, or raise can.CanOperationError
RecvOutcomes ==
  {"timeout", "error"}
  \cup (IF bus = "live" /\ nframes < env.frames THEN {"frame"} ELSE {})

\* a reader that keeps only the identifiers below 0x700
ReaderPut_Filtered(q, message) ==
  IF message.arbitration_id >= 1792 THEN q ELSE Put(q, message)

\* `self.incoming_queue.put(message)`
ReaderPut(q, message) == Put(q, message)

\* CANManager._read_can_bus: `message = self.bus.recv(timeout=0.1)` and the
\* rest of the loop body; the call is not inside any try
read_can_bus_recv ==
  \E t \in 1..Len(threads), o \in RecvOutcomes :
    /\ Running(t, "_read_can_bus", "recv")
    /\ IF o = "frame"
         THEN \E m \in BusMessages :
                LET message == Message(m.arbitration_id, m.data, FALSE,
                                       nframes + 1)
                IN /\ incoming_queue' = ReaderPut(incoming_queue, message)
                   /\ nframes' = nframes + 1
                   /\ threads' = [threads EXCEPT ![t] =
                                    NextRound([@ EXCEPT !.msg = message])]
         ELSE /\ UNCHANGED <<incoming_queue, nframes>>
              /\ threads' = [threads EXCEPT ![t] =
                   IF o = "error" THEN [@ EXCEPT !.pc = "dead"]
                   ELSE NextRound([@ EXCEPT !.msg = NoMsg])]
    /\ UNCHANGED <<bus, outgoing_queue, task_queues, stop_event, workers,
                   main_pc, ret, ninit, nstops, env, receiver>>

\* what self.bus.send(msg) can do: return, or raise can.CanError
SendOutcomes == {"sent", "CanError"}

\* the outcome of bus.send as the sender's loop body sees it
SendResult(o) == [kind |-> o, data |-> <<>>]

\* a sender that puts a frame back when its send failed
AfterSend_Requeue(q, o) ==
  IF o = "CanError" THEN Put(TaskDone(GetRest(q)), GetItem(q))
  ELSE TaskDone(GetRest(q))

\* the Outgoing Queue after one message was taken and bus.send came out as
\* o: can.CanError is caught and logged, then task_done in either case
AfterSend(q, o) == TaskDone(GetRest(q))

\* CANManager._send_can_bus, one round of the loop:
\* `msg = self.outgoing_queue.get(timeout=0.1)`, then on a message
\* `self.bus.send(msg)` (it returns, or raises can.CanError, which is
\* caught) and `self.outgoing_queue.task_done()`
send_can_bus ==
  /\ \E t \in 1..Len(threads) :
       /\ Running(t, "_send_can_bus", "get")
       /\ IF outgoing_queue.items = <<>>
            THEN /\ threads' = [threads EXCEPT ![t] = NextRound(@)]
                 /\ UNCHANGED outgoing_queue
            ELSE \E o \in SendOutcomes :
                   /\ threads' = [threads EXCEPT ![t] =
                        NextRound([@ EXCEPT !.msg = GetItem(outgoing_queue),
                                            !.result = SendResult(o)])]
                   /\ outgoing_queue' = AfterSend(outgoing_queue, o)
  /\ UNCHANGED <<bus, incoming_queue, task_queues, stop_event, workers,
                 main_pc, ret, nframes, ninit, nstops, env, receiver>>

\* `msg.arbitration_id in can_ids` for the entry of task_name
Matches(node_filters, task_name, msg) ==
  /\ task_name \in DOMAIN node_filters
  /\ InList(msg.arbitration_id, node_filters[task_name])

\* a routing loop that puts a matching frame twice
RouteTo_Twice(node_filters, msg, tqs, n) ==
  IF Matches(node_filters, n, msg) /\ Registered(tqs, n)
    THEN Put(Put(tqs[n], msg), msg)
    ELSE tqs[n]

\* a routing loop without the test of the identifier
RouteTo_Broadcast(node_filters, msg, tqs, n) ==
  IF Registered(tqs, n) THEN Put(tqs[n], msg) ELSE tqs[n]

\* a routing loop that creates the queue of a name that has none
RouteTo_CreateQueue(node_filters, msg, tqs, n) ==
  IF Matches(node_filters, n, msg)
    THEN Put(IF Registered(tqs, n) THEN tqs[n] ELSE NewTaskQueue(1), msg)
    ELSE tqs[n]

\* the task queue of name n after the routing loop of
\* CANManager._dispatcher has run for msg
RouteTo(node_filters, msg, tqs, n) ==
  IF Matches(node_filters, n, msg) /\ Registered(tqs, n)
    THEN Put(tqs[n], msg)
    ELSE tqs[n]

\* the routing loop of CANManager._dispatcher: the task queues after it
RouteMessage(node_filters, msg, tqs) ==
  [n \in TaskNames |-> RouteTo(node_filters, msg, tqs, n)]

\* the flag `routed` after the routing loop
Routed(node_filters, msg, tqs) ==
  \E n \in DOMAIN node_filters :
    Matches(node_filters, n, msg) /\ Registered(tqs, n)

\* CANManager._dispatcher, one round of the loop:
\* `msg = self.incoming_queue.get(timeout=0.1)`, then on a message the
\* routing loop and `self.incoming_queue.task_done()`
dispatcher ==
  /\ \E t \in 1..Len(threads) :
       /\ Running(t, "_dispatcher", "get")
       /\ IF incoming_queue.items = <<>>
            THEN /\ threads' = [threads EXCEPT ![t] = NextRound(@)]
                 /\ UNCHANGED <<incoming_queue, task_queues>>
            ELSE LET msg == GetItem(incoming_queue)
                     node_filters == FilterTables[threads[t].arg]
                 IN /\ incoming_queue' = TaskDone(GetRest(incoming_queue))
                    /\ task_queues' = RouteMessage(node_filters, msg, task_queues)
                    /\ threads' = [threads EXCEPT ![t] =
                         NextRound([@ EXCEPT !.msg = msg,
                           !.routed = Routed(node_filters, msg, task_queues)])]
  /\ UNCHANGED <<bus, outgoing_queue, stop_event, workers, main_pc, ret,
                 nframes, ninit, nstops, env, receiver>>

\* the closure variables of the task_worker a thread runs
TaskName(th) == workers[th.arg].task_name
ProcessingFunc(th) == workers[th.arg].processing_func
OutputNodeIds(th) == workers[th.arg].output_node_ids

\* a test of the result without `is not None`
ShouldRespond_NoNoneCheck(result, output_node_ids) ==
  /\ output_node_ids # NoOutputs
  /\ Len(output_node_ids) > 0

\* a test of the truth value of the result: `result and output_node_ids`
ShouldRespond_Truthy(result, output_node_ids) ==
  /\ result.kind = "bytes"
  /\ Len(result.data) > 0
  /\ output_node_ids # NoOutputs
  /\ Len(output_node_ids) > 0

\* `result is not None and output_node_ids`
ShouldRespond(result, output_node_ids) ==
  /\ result.kind = "bytes"
  /\ output_node_ids # NoOutputs
  /\ Len(output_node_ids) > 0

\* a worker without the except clause: the exception ends the thread
AfterRaise_Uncaught == "dead"

\* where the worker goes when processing_func raised: the except clause
\* logs, and the loop body goes on to task_done
AfterRaise == "task_done"

\* can.Message(arbitration_id=output_id, data=result, is_extended_id=False)
Response(output_id, result) == Message(output_id, result.data, FALSE, 0)

\* a loop over the output identifiers that ends after the first one
NextOutput_FirstOnly(k, output_node_ids) == 0

\* an output loop that breaks off when the stop signal is set
NextOutput_StopAware(k, output_node_ids) ==
  IF stop_event \/ k >= Len(output_node_ids) THEN 0 ELSE k + 1

\* the index after k in `for output_id in output_node_ids` (0: loop over)
NextOutput(k, output_node_ids) ==
  IF k < Len(output_node_ids) THEN k + 1 ELSE 0

\* the worker after `result = processing_func(msg)` came out as o, and
\* after the test of the result
Processed(th, msg, o, output_node_ids) ==
  [th EXCEPT !.msg = msg,
             !.emitted = <<>>,
             !.result = o,
             !.pc = IF o.kind = "stuck" THEN "call"
                    ELSE IF o.kind = "raised" THEN AfterRaise
                    ELSE IF ShouldRespond(o, output_node_ids) THEN "put"
                    ELSE "task_done",
             !.i = IF o.kind # "raised" /\ ShouldRespond(o, output_node_ids)
                   THEN 1 ELSE 0]

\* task_worker, the head of one round of the loop:
\* `msg = self.task_queues[task_name].get(timeout=0.1)`, then on a message
\* `result = processing_func(msg)` and the test of the result
task_worker_get ==
  /\ \E t \in 1..Len(threads) :
       /\ Running(t, "task_worker", "get")
       /\ LET q == task_queues[TaskName(threads[t])]
          IN IF q.items = <<>>
               THEN /\ threads' = [threads EXCEPT ![t] = NextRound(@)]
                    /\ UNCHANGED task_queues
               ELSE /\ \E o \in HandlerOutcomes(ProcessingFunc(threads[t]),
                                                GetItem(q)) :
                         threads' = [threads EXCEPT ![t] =
                           Processed(@, GetItem(q), o, OutputNodeIds(threads[t]))]
                    /\ task_queues' =
                         [task_queues EXCEPT ![TaskName(threads[t])] = GetRest(q)]
  /\ UNCHANGED <<bus, incoming_queue, outgoing_queue, stop_event, workers,
                 main_pc, ret, nframes, ninit, nstops, env, receiver>>

\* task_worker: one round of `for output_id in output_node_ids`,
\* `self.outgoing_queue.put(response)`
task_worker_put ==
  /\ \E t \in 1..Len(threads) :
       /\ Running(t, "task_worker", "put")
       /\ LET th == threads[t]
              response == Response(OutputNodeIds(th)[th.i], th.result)
              next == NextOutput(th.i, OutputNodeIds(th))
          IN /\ outgoing_queue' = Put(outgoing_queue, response)
             /\ threads' = [threads EXCEPT ![t] =
                  [@ EXCEPT !.emitted = Append(@, response),
                            !.i = next,
                            !.pc = IF next = 0 THEN "task_done" ELSE "put"]]
  /\ UNCHANGED <<bus, incoming_queue, task_queues, stop_event, workers,
                 main_pc, ret, nframes, ninit, nstops, env, receiver>>

\* task_worker: `self.task_queues[task_name].task_done()`, on the queue
\* that is under task_name now; a ValueError ends the thread
task_worker_task_done ==
  /\ \E t \in 1..Len(threads) :
       /\ Running(t, "task_worker", "task_done")
       /\ LET q == task_queues[TaskName(threads[t])]
          IN IF TaskDoneRaises(q)
               THEN /\ threads' = [threads EXCEPT ![t] = [@ EXCEPT !.pc = "dead"]]
                    /\ UNCHANGED task_queues
               ELSE /\ threads' = [threads EXCEPT ![t] = NextRound(@)]
                    /\ task_queues' =
                         [task_queues EXCEPT ![TaskName(threads[t])] = TaskDone(q)]
  /\ UNCHANGED <<bus, incoming_queue, outgoing_queue, stop_event, workers,
                 main_pc, ret, nframes, ninit, nstops, env, receiver>>

Next ==
  \/ initialize
  \/ add_processing_task
  \/ start
  \/ stop_set
  \/ stop_join
  \/ stop_shutdown
  \/ thread_check
  \/ read_can_bus_recv
  \/ send_can_bus
  \/ dispatcher
  \/ task_worker_get
  \/ task_worker_put
  \/ task_worker_task_done

Spec == Init /\ [][Next]_vars

\* ------------------------------------------ the continuous-reception helper
\* class CANManager of src/test_scripts/can_send_receive_example.py
pipeline == <<bus, incoming_queue, outgoing_queue, task_queues, stop_event,
              threads, workers, main_pc, ret, nframes, ninit, nstops, env>>

\* the callback argument of receive_continuous
Callbacks == {"None", "callback"}

\* connect: can.Bus(...) succeeds, or raises and connect returns False
connect ==
  /\ receiver.main_pc = "idle"
  /\ receiver.nconnect < MaxConnects
  /\ \E ok \in BOOLEAN :
       receiver' = [receiver EXCEPT
                      !.bus = IF ok THEN "live" ELSE @,
                      !.nconnect = IF ok THEN @ + 1 ELSE @]
  /\ UNCHANGED pipeline

\* a receive thread, started: it stands at `while self.running`
NewLoop(callback) == [callback |-> callback, pc |-> "test", caught |-> {}]

\* receive_continuous: running = True, a new thread on _receive_loop is
\* stored in self.receive_thread and started
receive_continuous ==
  /\ receiver.main_pc = "idle"
  /\ Len(receiver.loops) < MaxLoops
  /\ \E callback \in Callbacks :
       receiver' = [receiver EXCEPT
                      !.running = TRUE,
                      !.loops = Append(@, NewLoop(callback)),
                      !.receive_thread = Len(receiver.loops) + 1]
  /\ UNCHANGED pipeline

\* the caller assigns `can_manager.running = False`
stop_running ==
  /\ receiver.main_pc = "idle"
  /\ receiver.running
  /\ receiver' = [receiver EXCEPT !.running = FALSE]
  /\ UNCHANGED pipeline

\* disconnect: `self.running = False`, then `if self.receive_thread`
disconnect_set ==
  /\ receiver.main_pc = "idle"
  /\ receiver.ndisconnect < MaxDisconnects
  /\ receiver' = [receiver EXCEPT
                    !.running = FALSE,
                    !.ndisconnect = @ + 1,
                    !.main_pc = IF receiver.receive_thread # 0 THEN "join"
                                ELSE "shutdown"]
  /\ UNCHANGED pipeline

\* disconnect: `self.receive_thread.join(timeout=2.0)` returns, the thread
\* finished or not
disconnect_join ==
  /\ receiver.main_pc = "join"
  /\ receiver' = [receiver EXCEPT !.main_pc = "shutdown"]
  /\ UNCHANGED pipeline

\* disconnect: `if self.bus: self.bus.shutdown()`
disconnect_shutdown ==
  /\ receiver.main_pc = "shutdown"
  /\ receiver' = [receiver EXCEPT
                    !.bus = IF @ = "None" THEN @ ELSE "shutdown",
                    !.main_pc = "idle"]
  /\ UNCHANGED pipeline

\* receive thread l stands at pc
AtLoop(l, pc) == l \in 1..Len(receiver.loops) /\ receiver.loops[l].pc = pc

\* _receive_loop: `while self.running`
receive_loop_test ==
  /\ \E l \in 1..Len(receiver.loops) :
       /\ AtLoop(l, "test")
       /\ receiver' = [receiver EXCEPT !.loops[l].pc =
                         IF receiver.running THEN "recv" ELSE "exited"]
  /\ UNCHANGED pipeline

\* what `self.bus.recv(timeout=0.5)` can do: return None, return a message,
\* or raise; with self.bus None the attribute access raises
LoopRecvOutcomes ==
  IF receiver.bus = "None" THEN {"raised"}
  ELSE IF receiver.bus = "live" THEN {"timeout", "message", "raised"}
  ELSE {"timeout", "raised"}

\* a receive loop without the except clause
AfterLoopError_Uncaught == "dead"

\* `except Exception as e`: the error is printed when running, and the loop
\* goes back to its test
AfterLoopError == "test"

\* _receive_loop: `message = self.bus.recv(timeout=0.5)` inside the try
receive_loop_recv ==
  /\ \E l \in 1..Len(receiver.loops), o \in LoopRecvOutcomes :
       /\ AtLoop(l, "recv")
       /\ receiver' = [receiver EXCEPT !.loops[l] =
            IF o = "raised"
              THEN [@ EXCEPT !.pc = AfterLoopError,
                             !.caught = @ \cup {"recv"}]
            ELSE IF o = "message" /\ @.callback # "None"
              THEN [@ EXCEPT !.pc = "callback"]
            ELSE [@ EXCEPT !.pc = "test"]]
  /\ UNCHANGED pipeline

\* what `callback(message)` can do
CallbackOutcomes == {"returned", "raised"}

\* _receive_loop: `callback(message)` inside the try
receive_loop_callback ==
  /\ \E l \in 1..Len(receiver.loops), o \in CallbackOutcomes :
       /\ AtLoop(l, "callback")
       /\ receiver' = [receiver EXCEPT !.loops[l] =
            IF o = "raised"
              THEN [@ EXCEPT !.pc = AfterLoopError,
                             !.caught = @ \cup {"callback"}]
            ELSE [@ EXCEPT !.pc = "test"]]
  /\ UNCHANGED pipeline

ReceiverNext ==
  \/ connect
  \/ receive_continuous
  \/ stop_running
  \/ disconnect_set
  \/ disconnect_join
  \/ disconnect_shutdown
  \/ receive_loop_test
  \/ receive_loop_recv
  \/ receive_loop_callback

\* ================================================================ properties
Launched(t) == t \in 1..Len(threads) /\ threads[t].pc # "new"

LaunchedThreads(target) ==
  {t \in 1..Len(threads) : Launched(t) /\ threads[t].target = target}

\* thread t, the dispatcher, takes the head of the Incoming Queue in this step
DispatchStep(t) ==
  /\ Running(t, "_dispatcher", "get")
  /\ incoming_queue.items # <<>>
  /\ incoming_queue'.items = Tail(incoming_queue.items)

\* the identifier of frame is in the identifier list of entry n of the table
EntryMatches(node_filters, n, frame) ==
  /\ n \in DOMAIN node_filters
  /\ \E k \in DOMAIN node_filters[n] :
       node_filters[n][k] = frame.arbitration_id

\* thread t, a worker, takes the head of its task queue in this step
DequeueStep(t) ==
  /\ Running(t, "task_worker", "get")
  /\ task_queues[TaskName(threads[t])].items # <<>>
  /\ threads'[t].pc # "get" \/ threads'[t].msg # threads[t].msg
  /\ task_queues'[TaskName(threads[t])].items =
       Tail(task_queues[TaskName(threads[t])].items)

\* ---------------------------------------------------------------- C1
C1_ArrivalOrder ==
  \A n \in TaskNames :
    \A i, j \in DOMAIN task_queues[n].items :
      i < j => task_queues[n].items[i].timestamp
                 < task_queues[n].items[j].timestamp

C1_FanOutStep ==
  \A t \in 1..Len(threads) :
    DispatchStep(t) =>
      LET F == Head(incoming_queue.items)
          nf == FilterTables[threads[t].arg]
      IN \A n \in TaskNames :
           IF EntryMatches(nf, n, F) /\ task_queues[n].qid # 0
             THEN task_queues'[n].items = Append(task_queues[n].items, F)
             ELSE task_queues'[n].items = task_queues[n].items

\* C1 (as amended): every frame the dispatcher takes from the Incoming
\* Queue is appended exactly once to the task queue of each routing entry
\* whose identifier list contains its identifier and whose task name has a
\* registered queue, and to no other task queue; within each task queue the
\* frames stand in the order of their arrival.
C1_FanOut == [][C1_FanOutStep]_vars /\ []C1_ArrivalOrder

C1_EveryEntryStep ==
  \A t \in 1..Len(threads) :
    DispatchStep(t) =>
      LET F == Head(incoming_queue.items)
          nf == FilterTables[threads[t].arg]
      IN \A n \in TaskNames :
           IF EntryMatches(nf, n, F)
             THEN /\ task_queues[n].qid # 0
                  /\ task_queues'[n].items = Append(task_queues[n].items, F)
             ELSE task_queues'[n].items = task_queues[n].items

\* C1 as stated: the frame goes into the task queue of every routing entry
\* whose identifier list contains its identifier.
C1_FanOutEveryEntry == [][C1_EveryEntryStep]_vars /\ []C1_ArrivalOrder

\* one frame stands in the task queues of two tasks
C1_FannedOut ==
  \E i \in DOMAIN task_queues["task_1"].items,
     j \in DOMAIN task_queues["task_2"].items :
    task_queues["task_1"].items[i] = task_queues["task_2"].items[j]

\* ---------------------------------------------------------------- C2
NoEntryMatches(node_filters, frame) ==
  \A n \in DOMAIN node_filters : ~EntryMatches(node_filters, n, frame)

C2_DropStep ==
  \A t \in 1..Len(threads) :
    (DispatchStep(t)
       /\ NoEntryMatches(FilterTables[threads[t].arg], Head(incoming_queue.items)))
    => /\ task_queues' = task_queues
       /\ outgoing_queue' = outgoing_queue
       /\ threads'[t].pc # "dead"
       /\ ~stop_event => threads'[t].pc = "get"

C2_OnlyMatchedQueued ==
  \A d \in LaunchedThreads("_dispatcher") :
    LET nf == FilterTables[threads[d].arg]
    IN /\ \A n \in TaskNames : \A k \in DOMAIN task_queues[n].items :
            ~NoEntryMatches(nf, task_queues[n].items[k])
       /\ \A w \in LaunchedThreads("task_worker") :
            threads[w].msg # NoMsg => ~NoEntryMatches(nf, threads[w].msg)

\* C2: a frame whose identifier is in no routing entry leaves the Incoming
\* Queue, changes no task queue and the Outgoing Queue not at all, and the
\* dispatcher stays in its loop; no task queue and no worker ever holds
\* such a frame.
C2_UnmatchedDropped == [][C2_DropStep]_vars /\ []C2_OnlyMatchedQueued

\* the dispatcher has dropped an unmatched frame and the next one waits
C2_DroppedOne ==
  \E d \in LaunchedThreads("_dispatcher") :
    /\ threads[d].msg # NoMsg
    /\ NoEntryMatches(FilterTables[threads[d].arg], threads[d].msg)
    /\ ~threads[d].routed
    /\ threads[d].pc = "get"
    /\ incoming_queue.items # <<>>

\* ---------------------------------------------------------------- C3
\* the M responses to a k-byte result: one per output identifier, in order
ExpectedResponses(th) ==
  LET ids == OutputNodeIds(th)
      M == IF ids = NoOutputs THEN 0 ELSE Len(ids)
  IN [k \in 1..M |->
        [arbitration_id |-> ids[k], data |-> th.result.data,
         is_extended_id |-> FALSE, is_remote_frame |-> FALSE, timestamp |-> 0]]

C3_Emitted ==
  \A t \in LaunchedThreads("task_worker") :
    threads[t].result.kind = "bytes" =>
      IF threads[t].pc = "put"
        THEN threads[t].emitted
               = SubSeq(ExpectedResponses(threads[t]), 1, threads[t].i - 1)
        ELSE threads[t].emitted = ExpectedResponses(threads[t])

C3_PutStep ==
  \A t \in 1..Len(threads) :
    (threads'[t].emitted # threads[t].emitted /\ threads'[t].emitted # <<>>)
    => /\ Len(threads'[t].emitted) = Len(threads[t].emitted) + 1
       /\ outgoing_queue'.items =
            Append(outgoing_queue.items,
                   threads'[t].emitted[Len(threads'[t].emitted)])

\* C3 (as amended): for a k-byte result and M output identifiers the worker
\* puts exactly M frames on the Outgoing Queue for that input, one per
\* output identifier in list order, each with the same k-byte payload; the
\* M puts are separate steps.
C3_Responses == []C3_Emitted /\ [][C3_PutStep]_vars

C3_NothingBetween ==
  \A t \in 1..Len(threads) :
    (threads[t].target = "task_worker" /\ threads[t].pc = "put"
       /\ threads[t].i > 1 /\ threads'[t] = threads[t])
    => Len(outgoing_queue'.items) <= Len(outgoing_queue.items)

\* C3 as stated: the M puts happen within one scheduling step, no frame of
\* another worker comes between them on the Outgoing Queue.
C3_ResponsesInOneStep ==
  []C3_Emitted /\ [][C3_PutStep]_vars /\ [][C3_NothingBetween]_vars

\* a worker has put both responses to a result of at least one byte
C3_TwoResponses ==
  \E t \in LaunchedThreads("task_worker") :
    /\ threads[t].result.kind = "bytes"
    /\ Len(threads[t].result.data) > 0
    /\ threads[t].pc # "put"
    /\ Len(threads[t].emitted) = 2

\* ---------------------------------------------------------------- C4
C4_NothingEmitted ==
  \A t \in LaunchedThreads("task_worker") :
    threads[t].result.kind = "None" =>
      threads[t].emitted = <<>> /\ threads[t].pc # "put"

C4_NoneStep ==
  \A t \in 1..Len(threads) :
    (DequeueStep(t) /\ threads'[t].result.kind = "None")
    => /\ outgoing_queue' = outgoing_queue
       /\ threads'[t].pc = "task_done"

\* C4: when the handler returns None the worker puts no frame on the
\* Outgoing Queue for that input, whatever its output identifiers, and goes
\* on to task_done and the next round of its loop.
C4_NoneEmitsNothing == []C4_NothingEmitted /\ [][C4_NoneStep]_vars

\* a worker with two output identifiers got None, finished the round, and
\* the next frame waits in its queue
C4_NoneThenNext ==
  \E t \in LaunchedThreads("task_worker") :
    /\ threads[t].result.kind = "None"
    /\ OutputNodeIds(threads[t]) # NoOutputs
    /\ Len(OutputNodeIds(threads[t])) = 2
    /\ threads[t].pc = "get"
    /\ task_queues[TaskName(threads[t])].items # <<>>

\* ---------------------------------------------------------------- C5
C5_RaisedEmitsNothing ==
  \A t \in LaunchedThreads("task_worker") :
    threads[t].result.kind = "raised" =>
      threads[t].emitted = <<>> /\ threads[t].pc # "put"

C5_RaiseStep ==
  \A t \in 1..Len(threads) :
    (DequeueStep(t) /\ threads'[t].result.kind = "raised")
    => /\ threads'[t].pc = "task_done"
       /\ outgoing_queue' = outgoing_queue
       /\ incoming_queue' = incoming_queue
       /\ \A u \in 1..Len(threads) : u # t => threads'[u] = threads[u]
       /\ \A n \in TaskNames :
            n # TaskName(threads[t]) => task_queues'[n] = task_queues[n]

C5_NextDequeued ==
  \A t \in 1..Len(threads) :
    (Running(t, "task_worker", "get") /\ threads[t].result.kind = "raised"
       /\ task_queues[TaskName(threads[t])].items # <<>>
       /\ threads'[t] # threads[t])
    => /\ threads'[t].msg = Head(task_queues[TaskName(threads[t])].items)
       /\ threads'[t].pc \in {"put", "task_done", "call"}

C5_EndsOnlyInTaskDone ==
  \A t \in 1..Len(threads) :
    (threads[t].target = "task_worker" /\ threads[t].result.kind = "raised"
       /\ threads[t].pc # "dead" /\ threads'[t].pc = "dead")
    => /\ threads[t].pc = "task_done"
       /\ task_queues[TaskName(threads[t])].unfinished <= 0

\* C5: when the handler raises for a message, the worker goes on to
\* task_done (the exception does not end the thread), nothing is put on
\* the Outgoing Queue for that message in that step or later, no other
\* thread and no other queue changes, and the worker's next step at a
\* non-empty queue dequeues and processes the next message; the one step
\* that can end such a worker is a task_done that raises ValueError.
C5_FaultIsolation ==
  /\ []C5_RaisedEmitsNothing
  /\ [][C5_RaiseStep]_vars
  /\ [][C5_NextDequeued]_vars
  /\ [][C5_EndsOnlyInTaskDone]_vars

\* a worker whose handler raised is back at its queue, where the next
\* message waits
C5_RaisedThenNext ==
  \E t \in LaunchedThreads("task_worker") :
    /\ threads[t].result.kind = "raised"
    /\ threads[t].pc = "get"
    /\ task_queues[TaskName(threads[t])].items # <<>>
    /\ ~stop_event

\* ---------------------------------------------------------------- C6
ReaderOrDispatcher(th) == th.target \in {"_read_can_bus", "_dispatcher"}

AtBlockingCall(th) == th.pc \in {"recv", "get"}

C6_NoArrival ==
  stop_event =>
    \A t \in 1..Len(threads) :
      (ReaderOrDispatcher(threads'[t]) /\ AtBlockingCall(threads'[t]))
      => threads'[t] = threads[t]

\* C6 (as amended): once the stop signal is set, the reader never again
\* arrives at a bus receive call and the dispatcher never again arrives at
\* a dequeue: the one call each of them can still begin is the call whose
\* stop check came before the signal, and its next check ends the loop.
C6_NoNewRound == [][C6_NoArrival]_vars

C6_NoCallBegins ==
  stop_event =>
    \A t \in 1..Len(threads) :
      (ReaderOrDispatcher(threads[t]) /\ AtBlockingCall(threads[t]))
      => threads'[t] = threads[t]

\* C6 as stated: once the stop signal is set, no bus receive call and no
\* dequeue from the Incoming Queue begins, also when the signal is set
\* between a loop's stop check and its blocking call.
C6_NoCallAfterStop == [][C6_NoCallBegins]_vars

\* the stop signal is set, reader and dispatcher have left their loops,
\* and a frame is still on the Incoming Queue
C6_StoppedWithFramesQueued ==
  /\ stop_event
  /\ incoming_queue.items # <<>>
  /\ \E r \in LaunchedThreads("_read_can_bus") : threads[r].pc = "exited"
  /\ \E d \in LaunchedThreads("_dispatcher") : threads[d].pc = "exited"

\* ---------------------------------------------------------------- C7
Started == \E t \in 1..Len(threads) : threads[t].pc # "new"

QueueObjects(tqs) == [n \in TaskNames |-> tqs[n].qid]

\* C7 as stated: once start() has launched the threads, a registration is
\* rejected: no task name gets a new queue object and no new task_worker
\* is handed out.
C7_NoRegistrationAfterStart ==
  [][Started => (QueueObjects(task_queues') = QueueObjects(task_queues)
                 /\ workers' = workers)]_vars

\* ---------------------------------------------------------------- C8
\* C8 as stated: a registration under a registered name is rejected: the
\* queue object under a registered name is never replaced.
C8_QueueNeverReplaced ==
  [][\A n \in TaskNames :
       task_queues[n].qid # 0 => task_queues'[n].qid = task_queues[n].qid]_vars

\* ---------------------------------------------------------------- C9
AllQueuesEmpty ==
  /\ incoming_queue = EmptyQueue
  /\ outgoing_queue = EmptyQueue
  /\ \A n \in TaskNames :
       task_queues[n].items = <<>> /\ task_queues[n].unfinished = 0

C9_NothingStarted ==
  bus = "None" =>
    /\ threads = <<>>
    /\ AllQueuesEmpty
    /\ ret \in {"none", "start:False"}

C9_FailedStartStep ==
  (ret' = "start:False" /\ ret' # ret) =>
    /\ bus = "None"
    /\ UNCHANGED <<bus, incoming_queue, outgoing_queue, task_queues,
                   stop_event, threads, workers, main_pc>>

\* C9: while the bus is not initialised, start() reports failure (returns
\* False) and changes nothing else: no thread is created or started, the
\* thread list stays empty, no queue is touched; the pipeline stays as
\* created.
C9_StartNeedsBus == []C9_NothingStarted /\ [][C9_FailedStartStep]_vars

\* start() was called with a task registered and no bus, and returned False
C9_StartFailed ==
  /\ ret = "start:False"
  /\ workers # <<>>
  /\ bus = "None"

\* --------------------------------------------------------------- C10
WorkersOf(n) ==
  {t \in LaunchedThreads("task_worker") : TaskName(threads[t]) = n}

\* C10 as stated: after a successful start() there is exactly one reader,
\* one dispatcher, one sender, and exactly one worker for every registered
\* task.
C10_OneWorkerPerTask ==
  ret = "start:True" =>
    /\ Cardinality(LaunchedThreads("_read_can_bus")) = 1
    /\ Cardinality(LaunchedThreads("_dispatcher")) = 1
    /\ Cardinality(LaunchedThreads("_send_can_bus")) = 1
    /\ \A n \in TaskNames :
         task_queues[n].qid # 0 => Cardinality(WorkersOf(n)) = 1

\* --------------------------------------------------------------- C11
\* thread t is started and has not left its function
StillRunning(t) ==
  Launched(t) /\ threads[t].pc \notin {"exited", "dead"}

C11_StopReturns == main_pc' = "stopped" /\ main_pc # "stopped"

C11_JoinedStep ==
  C11_StopReturns =>
    /\ stop_event
    /\ \A t \in 1..Len(threads) : Launched(t)

C11_NoNewRoundStep ==
  main_pc = "stopped" =>
    \A t \in 1..Len(threads) :
      threads'[t].pc \in {"recv", "get"} => threads'[t] = threads[t]

\* C11 (as amended): stop() returns only after the stop signal is set and
\* each thread of the list, all of them started, was waited for; a thread
\* whose bounded wait ran out is still running then, and it begins no new
\* round of its loop once the pipeline is Stopped.
C11_StoppedAfterJoins ==
  [][C11_JoinedStep]_vars /\ [][C11_NoNewRoundStep]_vars

\* C11 as stated: in no state is the pipeline Stopped while one of its
\* threads is still running.
C11_StoppedMeansExited ==
  main_pc = "stopped" => \A t \in 1..Len(threads) : ~StillRunning(t)

\* stop() has returned while a worker is inside a handler call that does
\* not return
C11_StoppedWhileInHandler ==
  /\ main_pc = "stopped"
  /\ bus = "shutdown"
  /\ \E t \in LaunchedThreads("task_worker") : threads[t].pc = "call"

\* --------------------------------------------------------------- C12
C12_StopStep ==
  /\ main_pc = "join" => main_pc' # "raised"
  /\ (main_pc' = "stopped" /\ main_pc # "stopped" /\ bus # "None")
       => bus' = "shutdown"

\* C12 as stated: every stop() on a pipeline whose bus was initialised runs
\* to its end, set the signal, wait for each thread, release the bus: the
\* wait never ends stop() with an exception, stop() returns with the bus
\* released, and the bus is released only with the stop signal set.
C12_StopReleasesBus ==
  [][C12_StopStep]_vars /\ [](bus = "shutdown" => stop_event)

\* --------------------------------------------------------------- C13
\* C13 as stated: a receive error never ends the reader thread: no started
\* reader is ever dead, so it goes on polling after the error.
C13_ReaderSurvives ==
  \A t \in LaunchedThreads("_read_can_bus") : threads[t].pc # "dead"

\* --------------------------------------------------------------- C14
\* thread t, the sender, takes the head of the Outgoing Queue in this step
SendStep(t) ==
  /\ Running(t, "_send_can_bus", "get")
  /\ outgoing_queue.items # <<>>
  /\ \/ threads'[t] # threads[t]
     \/ Len(outgoing_queue'.items) < Len(outgoing_queue.items)

C14_SendStep ==
  \A t \in 1..Len(threads) :
    SendStep(t) =>
      /\ threads'[t].msg = Head(outgoing_queue.items)
      /\ threads'[t].result.kind \in SendOutcomes
      /\ outgoing_queue'.items = Tail(outgoing_queue.items)
      /\ outgoing_queue'.unfinished = outgoing_queue.unfinished - 1
      /\ threads'[t].pc # "dead"
      /\ ~stop_event => threads'[t].pc = "get"

\* C14: each step of the sender hands the head of the Outgoing Queue to
\* bus.send once; whether the send returns or fails, the frame is gone from
\* the queue (not put back), the sender thread does not end, and it stands
\* at its next get, where the next frame of the queue is the one it takes.
C14_FailedSendDropped == [][C14_SendStep]_vars

\* a send has failed, the sender is back at its get and the next frame waits
C14_FailedThenNext ==
  \E t \in LaunchedThreads("_send_can_bus") :
    /\ threads[t].result.kind = "CanError"
    /\ threads[t].pc = "get"
    /\ outgoing_queue.items # <<>>
    /\ threads[t].msg \notin {outgoing_queue.items[k] :
                               k \in DOMAIN outgoing_queue.items}

\* --------------------------------------------------------------- C15
\* the bus has returned a frame to the reader in this step
ReceiveStep == nframes' = nframes + 1

C15_EnqueueStep ==
  /\ ReceiveStep =>
       \E t \in LaunchedThreads("_read_can_bus") :
         /\ threads'[t].msg.timestamp = nframes'
         /\ \E m \in BusMessages :
              /\ threads'[t].msg.arbitration_id = m.arbitration_id
              /\ threads'[t].msg.data = m.data
         /\ incoming_queue'.items
              = Append(incoming_queue.items, threads'[t].msg)
  /\ ~ReceiveStep =>
       Len(incoming_queue'.items) <= Len(incoming_queue.items)

C15_ReceiveOrder ==
  \A i, j \in DOMAIN incoming_queue.items :
    i < j => incoming_queue.items[i].timestamp
               < incoming_queue.items[j].timestamp

\* C15: the frame a receive call returns is appended to the Incoming Queue
\* as it is, whatever its identifier, in the step that received it; nothing
\* else is ever appended (a timeout appends nothing), and the frames of the
\* queue stand in the order in which the bus returned them, none twice.
C15_Verbatim == [][C15_EnqueueStep]_vars /\ []C15_ReceiveOrder

\* two frames are on the Incoming Queue, the first one with an identifier
\* no routing entry names, and the reader has polled again and timed out
C15_TwoReceived ==
  /\ Len(incoming_queue.items) = 2
  /\ incoming_queue.items[1].arbitration_id = 2047
  /\ \E t \in LaunchedThreads("_read_can_bus") :
       threads[t].msg = NoMsg /\ threads[t].pc = "recv"

\* --------------------------------------------------------------- C16
\* every started thread gets to run: the operating system schedules each
\* thread again and again, and a get with a timeout returns
Fairness ==
  /\ WF_vars(thread_check)
  /\ WF_vars(dispatcher)
  /\ WF_vars(send_can_bus)
  /\ WF_vars(task_worker_get)
  /\ WF_vars(task_worker_put)
  /\ WF_vars(task_worker_task_done)

\* a run in which stop() is never called
RunningEnvironment ==
  [frames |-> RunningFrames, regs |-> RunningRegs,
   starts |-> RunningStarts, stops |-> 0]

LiveInit ==
  Constructed /\ env = RunningEnvironment /\ receiver = NoReceiver

\* the steps of a pipeline on which stop() is not called
RunningNext ==
  \/ initialize
  \/ add_processing_task
  \/ start
  \/ thread_check
  \/ read_can_bus_recv
  \/ send_can_bus
  \/ dispatcher
  \/ task_worker_get
  \/ task_worker_put
  \/ task_worker_task_done

LiveSpec == LiveInit /\ [][RunningNext]_vars /\ Fairness

\* the queue objects add_processing_task can have created in one run
QueueIds == 1..RunningRegs

\* the receive stamps of the frames of one run
Stamps == 1..RunningFrames

\* some worker is inside a handler call that does not return
SomeStuck ==
  \E w \in LaunchedThreads("task_worker") : threads[w].pc = "call"

\* the frame received k-th stands in queue q
InQueue(q, k) == \E i \in DOMAIN q.items : q.items[i].timestamp = k

\* a worker of task n whose handler always returns is in its loop
ReturningWorker(n) ==
  \E u \in LaunchedThreads("task_worker") :
    /\ TaskName(threads[u]) = n
    /\ ProcessingFunc(threads[u]) = "example_processing_task_1"
    /\ threads[u].pc \in {"get", "put", "task_done"}

\* a worker of task n has called its handler with the frame received k-th
HandledBy(n, k) ==
  \E u \in LaunchedThreads("task_worker") :
    /\ TaskName(threads[u]) = n
    /\ threads[u].msg.timestamp = k
    /\ threads[u].result.kind # "unset"

C16_DispatcherProgress ==
  \A k \in Stamps :
    (SomeStuck /\ InQueue(incoming_queue, k)
       /\ LaunchedThreads("_dispatcher") # {})
    ~> (~InQueue(incoming_queue, k) \/ stop_event)

C16_OtherTaskProgress ==
  \A n \in TaskNames : \A k \in Stamps : \A q \in QueueIds :
    (SomeStuck /\ ReturningWorker(n) /\ task_queues[n].qid = q
       /\ InQueue(task_queues[n], k))
    ~> (HandledBy(n, k) \/ stop_event \/ task_queues[n].qid # q)

C16_ResponsesSent ==
  (SomeStuck /\ outgoing_queue.items # <<>>
     /\ LaunchedThreads("_send_can_bus") # {})
  ~> (outgoing_queue.items = <<>> \/ stop_event)

InLoop(target) ==
  {t \in LaunchedThreads(target) : threads[t].pc \notin {"exited", "dead"}}

\* C17: at any time at most one thread runs _read_can_bus and at most one
\* runs _send_can_bus, whatever calls of add_processing_task, start and
\* stop came before, and no other thread stands at a bus receive: two
\* threads are never inside bus.recv, or inside bus.send, together.
C17_BusSerialised ==
  /\ Cardinality(InLoop("_read_can_bus")) <= 1
  /\ Cardinality(InLoop("_send_can_bus")) <= 1
  /\ \A t \in 1..Len(threads) :
       threads[t].pc = "recv" => threads[t].target = "_read_can_bus"

\* start() was called a second time, and the first reader and sender are
\* in their loops beside a second reader and sender that never ran
C17_SecondStart ==
  /\ ret = "start:RuntimeError"
  /\ \E r \in InLoop("_read_can_bus") : threads[r].pc = "recv"
  /\ \E x \in InLoop("_send_can_bus") : threads[x].pc = "get"
  /\ \E k \in 1..Len(threads) :
       threads[k].target = "_read_can_bus" /\ threads[k].pc = "new"

\* --------------------------------------------------------------- C18
C18_InvertStep ==
  \A t \in 1..Len(threads) :
    (DequeueStep(t)
       /\ ProcessingFunc(threads[t]) = "example_processing_task_1")
    => LET input == Head(task_queues[TaskName(threads[t])].items)
           result == threads'[t].result
       IN /\ result.kind = "bytes"
          /\ Len(result.data) = Len(input.data)
          /\ \A i \in 1..Len(input.data) :
               /\ result.data[i] + input.data[i] = 255
               /\ result.data[i] \in 0..255

C18_ResponseStep ==
  \A t \in 1..Len(threads) :
    (Running(t, "task_worker", "put") /\ threads'[t] # threads[t]
       /\ ProcessingFunc(threads[t]) = "example_processing_task_1"
       /\ OutputNodeIds(threads[t]) = <<768>>
       /\ threads[t].msg.arbitration_id = 256
       /\ threads[t].msg.data = <<0, 255>>)
    => outgoing_queue'.items
         = Append(outgoing_queue.items, Message(768, <<255, 0>>, FALSE, 0))

\* C18: the inverting handler returns as many bytes as the frame has, byte
\* i being 0xFF minus input byte i (its bitwise complement); the worker of
\* a task with this handler and output set {0x300} that takes the frame
\* id=0x100, data=[0x00,0xFF] puts the frame id=0x300, data=[0xFF,0x00] on
\* the Outgoing Queue.
C18_Inverter == [][C18_InvertStep]_vars /\ [][C18_ResponseStep]_vars

\* the Outgoing Queue holds the frame id=0x300, data=[0xFF,0x00]
C18_InvertedOnQueue ==
  \E k \in DOMAIN outgoing_queue.items :
    /\ outgoing_queue.items[k].arbitration_id = 768
    /\ outgoing_queue.items[k].data = <<255, 0>>

\* --------------------------------------------------------------- C19
\* C19 as stated: every frame a worker has put on the Outgoing Queue is
\* non-extended and non-remote, has one of the task's output identifiers,
\* and carries at most 8 bytes, whatever the handler returned.
C19_StandardFrames ==
  \A t \in LaunchedThreads("task_worker") :
    \A k \in DOMAIN threads[t].emitted :
      LET frame == threads[t].emitted[k]
      IN /\ ~frame.is_extended_id
         /\ ~frame.is_remote_frame
         /\ InList(frame.arbitration_id, OutputNodeIds(threads[t]))
         /\ Len(frame.data) <= 8

\* --------------------------------------------------------------- C20
\* Created 0, Running 1, and 2 from the first stop() on: StopRequested
\* while a stop() is between its statements, Stopped once it has returned
Phase ==
  IF stop_event THEN 2
  ELSE IF Started THEN 1
  ELSE 0

OutsideLoop(th) == th.pc \in {"new", "check", "exited", "dead"}

C20_ForwardStep ==
  /\ stop_event => stop_event'
  /\ Phase' >= Phase
  /\ main_pc = "stopped" => main_pc' \in {"stopped", "join"}
  /\ main_pc # "idle" => stop_event /\ main_pc' # "idle"
  /\ stop_event =>
       \A t \in 1..Len(threads) :
         OutsideLoop(threads[t]) => OutsideLoop(threads'[t])

\* C20 (as amended): the stop signal is never cleared, the lifecycle never
\* moves back to Created or Running, Stopped is left only by another call
\* of stop(), and once stop() has been called no thread that is outside
\* its processing loop gets into it, whether it was started before or by a
\* later start(); a thread still inside a round of its loop when stop()
\* returns can finish that round.
C20_LifecycleForward == [][C20_ForwardStep]_vars

C20_QuietStep ==
  main_pc = "stopped" =>
    /\ nframes' = nframes
    /\ incoming_queue'.items = incoming_queue.items
    /\ outgoing_queue'.items = outgoing_queue.items

\* C20 as stated: the lifecycle moves forward and after Stopped no frame is
\* received, dispatched, processed into a response or sent.
C20_NothingAfterStopped ==
  [][C20_ForwardStep]_vars /\ [][C20_QuietStep]_vars

\* start() was called after stop() had returned: the threads it added were
\* never started, and no thread is in a loop
C20_StartAfterStop ==
  /\ main_pc = "stopped"
  /\ ret = "start:RuntimeError"
  /\ \E k \in 1..Len(threads) : threads[k].pc = "new"
  /\ \A t \in 1..Len(threads) : OutsideLoop(threads[t])

\* --------------------------------------------------------------- C21
\* the main thread gets to run too: a join with a timeout returns
StopFairness ==
  /\ Fairness
  /\ WF_vars(read_can_bus_recv)
  /\ WF_vars(stop_join)
  /\ WF_vars(stop_shutdown)

\* a run through the lifecycle, stop() included
LifecycleEnvironment ==
  [frames |-> LifecycleFrames, regs |-> LifecycleRegs,
   starts |-> LifecycleStarts, stops |-> LifecycleStops]

StopInit ==
  Constructed /\ env = LifecycleEnvironment /\ receiver = NoReceiver

StopSpec == StopInit /\ [][Next]_vars /\ StopFairness

C21_ThreadsExit ==
  stop_event ~> (SomeStuck \/ \A t \in 1..Len(threads) : ~StillRunning(t))

C21_StopReturns ==
  (main_pc = "join") ~> (SomeStuck \/ main_pc = "stopped")

\* C21: once the stop signal is set, and unless a handler call never
\* returns, every started thread eventually leaves its loop, and every call
\* of stop() eventually returns.
C21_CancellationTerminates == C21_ThreadsExit /\ C21_StopReturns

\* --------------------------------------------------------------- C22
\* thread t, a worker, leaves its loop in this step
WorkerExitStep(t) ==
  /\ threads[t].target = "task_worker"
  /\ threads[t].pc # "exited"
  /\ threads'[t].pc = "exited"

\* the worker leaves from the loop head only: when started, after a get
\* that found its queue empty, or after task_done with every response put
C22_ExitStep ==
  \A t \in 1..Len(threads) :
    WorkerExitStep(t) =>
      /\ stop_event
      /\ threads[t].pc \in {"check", "get", "task_done"}
      /\ threads[t].pc = "get" =>
           /\ task_queues[TaskName(threads[t])].items = <<>>
           /\ task_queues' = task_queues
      /\ (threads[t].pc = "task_done" /\ threads[t].result.kind = "bytes") =>
           threads[t].emitted = ExpectedResponses(threads[t])

\* with the signal set, a worker that holds a frame goes on as without it
C22_InFlightStep ==
  \A t \in 1..Len(threads) :
    (stop_event /\ threads[t].target = "task_worker"
       /\ threads'[t] # threads[t])
    => /\ DequeueStep(t) => threads'[t].pc \in {"call", "put", "task_done"}
       /\ threads[t].pc = "put" =>
            /\ threads'[t].pc \in {"put", "task_done"}
            /\ threads'[t].pc = "task_done" =>
                 threads'[t].emitted = ExpectedResponses(threads[t])
            /\ outgoing_queue'.items =
                 Append(outgoing_queue.items,
                        ExpectedResponses(threads[t])[threads[t].i])

\* C22: a worker that holds a dequeued frame when the stop signal is set
\* finishes it (the handler result is put on the Outgoing Queue once per
\* output identifier) before it leaves its loop; it leaves only at the loop
\* head, between two messages.
C22_InFlightCompletes == [][C22_ExitStep]_vars /\ [][C22_InFlightStep]_vars

\* stop() is waiting, and a worker has left its loop after putting both
\* responses to its last frame
C22_ExitedAfterResponses ==
  /\ stop_event
  /\ main_pc = "join"
  /\ \E t \in LaunchedThreads("task_worker") :
       /\ threads[t].pc = "exited"
       /\ threads[t].result.kind = "bytes"
       /\ Len(threads[t].emitted) = 2
       /\ threads[t].emitted = ExpectedResponses(threads[t])

\* --------------------------------------------------------------- C23
\* the reader is at or inside `self.bus.recv(timeout=0.1)`
InReceive(t) == Running(t, "_read_can_bus", "recv")

C23_NoReceiveOnReleasedBus ==
  bus = "shutdown" => \A t \in 1..Len(threads) : ~InReceive(t)

C23_NoSendOnReleasedBus ==
  bus = "shutdown" => \A t \in 1..Len(threads) : ~SendStep(t)

\* C23: once stop() has shut the bus down, no reader is at or inside a
\* bus receive and no sender hands a frame to bus send.
C23_NoBusUseAfterRelease ==
  []C23_NoReceiveOnReleasedBus /\ [][C23_NoSendOnReleasedBus]_vars

\* --------------------------------------------------------------- C24
\* thread t, a worker, puts a response on the Outgoing Queue in this step
ResponseStep(t) ==
  /\ Running(t, "task_worker", "put")
  /\ threads'[t].emitted # threads[t].emitted

\* worker u serves the task of worker t and still has responses to put for
\* a frame received before the one t holds
EarlierPending(u, t) ==
  /\ u # t
  /\ Running(u, "task_worker", "put")
  /\ TaskName(threads[u]) = TaskName(threads[t])
  /\ threads[u].msg.timestamp < threads[t].msg.timestamp

C24_ResponseOrderStep ==
  \A t \in 1..Len(threads) :
    ResponseStep(t) =>
      /\ \A u \in 1..Len(threads) : ~EarlierPending(u, t)
      /\ outgoing_queue'.items =
           Append(outgoing_queue.items,
                  ExpectedResponses(threads[t])[threads[t].i])

C24_SendOrderStep ==
  \A t \in 1..Len(threads) :
    SendStep(t) =>
      /\ threads'[t].msg = Head(outgoing_queue.items)
      /\ outgoing_queue'.items = Tail(outgoing_queue.items)

\* C24: a response is put on the Outgoing Queue only when no response to
\* an earlier frame of the same task is still to be put, the responses to
\* one frame are appended in the order of the output identifiers, and the
\* sender hands the frames to bus send in the order of the queue.
C24_PerTaskOrder ==
  [][C24_ResponseOrderStep]_vars /\ [][C24_SendOrderStep]_vars

\* --------------------------------------------------------------- C25
\* some thread has ended with an uncaught exception
SomeDead == \E t \in 1..Len(threads) : threads[t].pc = "dead"

\* a frame the dispatcher has put into the queue of task n is handed to
\* the handler of n
C25_RoutedToHandler ==
  \A n \in TaskNames : \A k \in Stamps :
    InQueue(task_queues[n], k) ~> (HandledBy(n, k) \/ SomeDead)

\* the threads one start() launches: reader, sender, dispatcher, workers
ThreadIds == 1..(3 + RunningRegs)

\* worker t stands in its output loop
Responding(t) ==
  t \in LaunchedThreads("task_worker") /\ threads[t].pc = "put"

\* worker t has put every response to the frame it holds
Responded(t) ==
  /\ t \in LaunchedThreads("task_worker")
  /\ threads[t].pc # "put"
  /\ threads[t].emitted = ExpectedResponses(threads[t])

\* a worker whose handler returned a result puts every response
C25_ResultToQueue ==
  \A t \in ThreadIds : Responding(t) ~> (Responded(t) \/ SomeDead)

\* every response on the Outgoing Queue is handed to bus send
C25_QueueToSend ==
  (outgoing_queue.items # <<>> /\ LaunchedThreads("_send_can_bus") # {})
  ~> (outgoing_queue.items = <<>> \/ SomeDead)

\* C25: with the stop signal never set and no thread ended by an
\* exception, every frame routed to a task is eventually handed to the
\* task's handler, every result is eventually put on the Outgoing Queue
\* once per output identifier, and every queued response is eventually
\* handed to bus send.
C25_EndToEndDelivery ==
  C25_RoutedToHandler /\ C25_ResultToQueue /\ C25_QueueToSend

\* --------------------------------------------------------------- C26
C26_RouteStep ==
  \A t \in 1..Len(threads) :
    DispatchStep(t) =>
      LET F == Head(incoming_queue.items)
          nf == FilterTables[threads[t].arg]
      IN /\ \A n \in TaskNames :
              task_queues'[n].items =
                IF EntryMatches(nf, n, F) /\ task_queues[n].qid # 0
                  THEN Append(task_queues[n].items, F)
                  ELSE task_queues[n].items
         /\ QueueObjects(task_queues') = QueueObjects(task_queues)
         /\ threads'[t].pc # "dead"
         /\ threads'[t].routed =
              \E n \in TaskNames :
                EntryMatches(nf, n, F) /\ task_queues[n].qid # 0

\* C26: the dispatcher puts a frame into the queue of task T exactly when
\* the routing table lists the frame's identifier under T and T has a
\* registered queue, one copy however often the identifier is listed; an
\* entry whose name has no queue is passed over: no queue is created, the
\* dispatcher does not end, and the frame is unrouted when no other entry
\* delivered it.
C26_RegisteredAndListed == [][C26_RouteStep]_vars

\* the dispatcher has routed a frame under a table that lists its
\* identifier once for task_1, which has no queue, and twice for task_2,
\* whose queue holds the one copy
C26_SkippedAndSingleCopy ==
  \E d \in LaunchedThreads("_dispatcher") :
    /\ threads[d].arg = 2
    /\ threads[d].msg.arbitration_id = 512
    /\ threads[d].routed
    /\ threads[d].pc = "get"
    /\ task_queues["task_1"].qid = 0
    /\ task_queues["task_2"].qid # 0
    /\ task_queues["task_2"].items = <<threads[d].msg>>

\* --------------------------------------------------------------- C27
\* the number M of output identifiers of the worker
NumOutputs(th) ==
  IF OutputNodeIds(th) = NoOutputs THEN 0 ELSE Len(OutputNodeIds(th))

C27_PresentStep ==
  \A t \in 1..Len(threads) :
    (DequeueStep(t) /\ threads'[t].result.kind = "bytes"
       /\ NumOutputs(threads[t]) >= 1)
    => threads'[t].pc = "put" /\ threads'[t].i = 1

C27_EmptyEmitted ==
  \A t \in LaunchedThreads("task_worker") :
    (threads[t].result = Returned(<<>>) /\ threads[t].pc # "put")
    => /\ Len(threads[t].emitted) = NumOutputs(threads[t])
       /\ \A k \in DOMAIN threads[t].emitted :
            /\ threads[t].emitted[k].data = <<>>
            /\ threads[t].emitted[k].arbitration_id
                 = OutputNodeIds(threads[t])[k]

\* C27: a result that is a byte string, the empty one included, sends the
\* worker into its output loop whenever it has an output identifier, and
\* for the empty result it puts M frames with an empty payload, one per
\* output identifier.
C27_EmptyResultPresent == [][C27_PresentStep]_vars /\ []C27_EmptyEmitted

\* a worker with two output identifiers has put both frames for an empty
\* result, and they stand on the Outgoing Queue
C27_TwoEmptyFrames ==
  \E t \in LaunchedThreads("task_worker") :
    /\ threads[t].result = Returned(<<>>)
    /\ threads[t].pc = "task_done"
    /\ Len(threads[t].emitted) = 2
    /\ outgoing_queue.items = threads[t].emitted
    /\ \A k \in 1..2 : outgoing_queue.items[k].data = <<>>

\* --------------------------------------------------------------- C28
\* the helper on its own: the pipeline object is not used
ReceiverInit ==
  Constructed /\ env = RunningEnvironment /\ receiver = NoReceiver

ReceiverSpec == ReceiverInit /\ [][ReceiverNext]_vars

\* the receive thread l is in its loop
InReceiveLoop(l) == receiver.loops[l].pc \in {"test", "recv", "callback"}

C28_LoopStep ==
  \A l \in 1..Len(receiver.loops) :
    /\ (InReceiveLoop(l) /\ ~receiver'.loops[l].pc \in {"test", "recv", "callback"})
         => /\ receiver.loops[l].pc = "test"
            /\ ~receiver.running
            /\ receiver'.loops[l].pc = "exited"
    /\ (receiver'.loops[l].pc = "recv" /\ receiver.loops[l].pc # "recv")
         => receiver.running
    /\ (AtLoop(l, "test") /\ ~receiver.running
           /\ receiver'.loops[l] # receiver.loops[l])
         => receiver'.loops[l].pc = "exited"

C28_DisconnectStep ==
  (receiver'.bus = "shutdown" /\ receiver.bus # "shutdown")
  => /\ ~receiver.running
     /\ receiver.main_pc = "shutdown"

C28_Waited ==
  receiver.main_pc = "join" => ~receiver.running /\ receiver.receive_thread # 0

C28_JoinStep ==
  (receiver'.main_pc = "shutdown" /\ receiver.main_pc = "idle")
  => receiver.receive_thread = 0

\* C28: a receive loop leaves only from its test with running false, also
\* after bus receive or the callback raised; it begins a receive only when
\* its test found running true, so after running is set to false it ends
\* the receive it is in and exits at its next test; disconnect shuts the bus
\* down only after it set running to false and, when there is a receive
\* thread, after its bounded join returned.
C28_ReceiveLoopSurvives ==
  /\ [][C28_LoopStep]_vars
  /\ [][C28_DisconnectStep]_vars
  /\ [][C28_JoinStep]_vars
  /\ []C28_Waited

\* a loop that caught an exception of bus receive and one of its callback
\* is in its next receive
C28_CaughtBoth ==
  \E l \in 1..Len(receiver.loops) :
    /\ receiver.loops[l].caught = {"recv", "callback"}
    /\ receiver.loops[l].pc = "recv"
    /\ receiver.running

\* --------------------------------------------------------------- C29
\* the workers of task n that hold a dequeued frame and have not yet
\* called task_done for it
InFlight(n) ==
  {t \in LaunchedThreads("task_worker") :
     TaskName(threads[t]) = n /\ threads[t].pc \in {"call", "put", "task_done"}}

\* unfinished counts the items put and not yet followed by task_done:
\* those still in the queue, and those a worker of the queue holds
C29_Accounted ==
  /\ incoming_queue.unfinished = Len(incoming_queue.items)
  /\ outgoing_queue.unfinished = Len(outgoing_queue.items)
  /\ \A n \in TaskNames :
       /\ task_queues[n].unfinished >= Len(task_queues[n].items)
       /\ task_queues[n].unfinished
            <= Len(task_queues[n].items) + Cardinality(InFlight(n))

\* the task_done of a worker finds an unfinished item on its queue
C29_TaskDoneStep ==
  \A t \in 1..Len(threads) :
    (Running(t, "task_worker", "task_done") /\ threads'[t] # threads[t])
    => /\ threads'[t].pc # "dead"
       /\ task_queues'[TaskName(threads[t])].unfinished
            = task_queues[TaskName(threads[t])].unfinished - 1

\* C29: every queue's count of unfinished items equals the items still in
\* it plus the items dequeued and not yet marked done, and every dequeued
\* item is followed by one task_done that finds it on its queue.
C29_CompletionAccounting == []C29_Accounted /\ [][C29_TaskDoneStep]_vars

====
